---- MODULE Spec2Model ----
(***************************************************************************)
(* Model of the clip-to-short pipeline of src/clipbot.py:                  *)
(* main() -> YouTubeShortsAutomation.__init__ -> process_clips.            *)
(* The HTTP endpoints, the media library and the file system are the      *)
(* environment: every answer they can give is drawn with \E from a small   *)
(* set where the code reads it.                                            *)
(***************************************************************************)
EXTENDS FiniteSets, Integers, Naturals, Sequences, TLC

\* ---------------------------------------------------------------- bounds
\* longest clip list the clip-listing endpoint answers with in the model
MaxClips == 7

\* longest transcript, in characters
MaxLen == 5

\* highest score of a category when the scores are drawn directly
MaxScore == 2

\* longest source of trim_video, in seconds, and largest cap
MaxDuration == 50

MaxCap == 40

\* widths and heights of the sources of create_vertical_video run from 1
\* to MaxDim pixels, beside two common frame sizes
MaxDim == 24

\* ------------------------------------------------------ program constants
max_uploads == 3
SleepSeconds == 30
target_width == 1080
target_height == 1920

\* --------------------------------------------------------- configuration
\* the seven settings _validate_credentials checks, in the dict's order
RequiredCreds ==
  << "TWITCH_CLIENT_ID", "TWITCH_CLIENT_SECRET", "TWITCH_STREAMER_NAME",
     "YOUTUBE_API_KEY", "YOUTUBE_CLIENT_ID", "YOUTUBE_CLIENT_SECRET",
     "YOUTUBE_REFRESH_TOKEN" >>

RequiredKeys == { RequiredCreds[i] : i \in 1..Len(RequiredCreds) }

OptionalKeys == { "YOUTUBE_STREAMERS" }

EnvKeys == RequiredKeys \cup OptionalKeys

\* what the process environment holds for a key
EnvValues == { "absent", "empty", "set" }

\* os.getenv(key): None for an absent key, else the string
getenv(e, key) ==
  IF e[key] = "absent" THEN "None"
  ELSE IF e[key] = "empty" THEN "" ELSE "value"

\* os.getenv(key, ''): the default replaces an absent key
getenv_default(e, key) ==
  IF e[key] = "set" THEN "value" ELSE ""

\* Python truthiness of an Optional[str]
Truthy(v) == v /= "None" /\ v /= ""

\* a mutant: only None counts as missing, the empty string passes
validate_credentials_none_only(creds) ==
  SelectSeq(RequiredCreds, LAMBDA k : creds[k] = "None")

\* missing_creds of _validate_credentials: the keys whose value is falsy,
\* in the order of required_creds; the method raises iff it is non-empty
validate_credentials(creds) ==
  SelectSeq(RequiredCreds, LAMBDA k : ~Truthy(creds[k]))

\* ------------------------------------------------------- call outcomes
\* the outcome of a call: a returned value or an escaping exception
Ret(v) == [exc |-> FALSE, val |-> v]

Exc == [exc |-> TRUE, val |-> "None"]

Statuses == { 200, 201, 401, 500 }

\* ------------------------------------------------------- token provider
TokenBodies == { "token", "no_key", "not_json" }

\* answers of a token endpoint: the request raises (timeout, connection
\* error) or an HTTP response arrives
TokenResponses ==
  { [kind |-> "raise", status |-> 0, body |-> "not_json"] } \cup
  [ kind : {"http"}, status : Statuses, body : TokenBodies ]

\* the statements inside the try block of both token functions
token_try_body(resp) ==
  IF resp.kind = "raise" THEN Exc
  ELSE IF resp.status = 200
       THEN IF resp.body = "token" THEN Ret("tok") ELSE Exc
       ELSE Ret("None")

\* a mutant: the except clause is missing
get_twitch_oauth_token_nocatch(resp) == token_try_body(resp)

get_twitch_oauth_token(resp) ==
  LET r == token_try_body(resp) IN IF r.exc THEN Ret("None") ELSE r

get_fresh_access_token(resp) ==
  LET r == token_try_body(resp) IN IF r.exc THEN Ret("None") ELSE r

\* -------------------------------------------------------- clip discovery
UserBodies == { "user", "no_data", "no_id", "not_json" }

UserResponses ==
  { [kind |-> "raise", status |-> 0, body |-> "not_json"] } \cup
  [ kind : {"http"}, status : Statuses, body : UserBodies ]

ClipsBodies == { "clips", "no_data_key", "null_data", "not_json" }

ClipsResponses ==
  { [kind |-> "raise", status |-> 0, body |-> "not_json"] } \cup
  [ kind : {"http"}, status : Statuses, body : ClipsBodies ]

\* the value get_twitch_clips hands back: a list of n records, or None
\* (a 200 answer whose "data" is null)
ListOf(n) == [kind |-> "list", len |-> n]

NoneValue == [kind |-> "none", len |-> 0]

\* Python truthiness of that value
NonEmpty(v) == v.kind = "list" /\ v.len > 0

\* the try block of get_twitch_clips, entered with a token
clips_try_body(userResp, clipsResp, n) ==
  IF userResp.kind = "raise" THEN Exc
  ELSE IF userResp.status /= 200 THEN Ret(ListOf(0))
  ELSE IF userResp.body = "not_json" THEN Exc
  ELSE IF userResp.body = "no_data" THEN Ret(ListOf(0))
  ELSE IF userResp.body = "no_id" THEN Exc
  ELSE IF clipsResp.kind = "raise" THEN Exc
  ELSE IF clipsResp.status = 200
       THEN IF clipsResp.body = "not_json" THEN Exc
            ELSE IF clipsResp.body = "no_data_key" THEN Ret(ListOf(0))
            ELSE IF clipsResp.body = "null_data" THEN Ret(NoneValue)
            ELSE Ret(ListOf(n))
       ELSE Ret(ListOf(0))

get_twitch_clips(tokenResp, userResp, clipsResp, n) ==
  LET tok == get_twitch_oauth_token(tokenResp) IN
  IF tok.exc THEN Exc
  ELSE IF ~Truthy(tok.val) THEN Ret(ListOf(0))
  ELSE LET r == clips_try_body(userResp, clipsResp, n) IN
       IF r.exc THEN Ret(ListOf(0)) ELSE r

\* --------------------------------------------------------- media fetcher
ProbeOutcomes == { "200", "other", "raise" }

FallbackOutcomes == { "url", "no_url", "raise" }

\* the three candidate CDN URLs, in the order of possible_urls
NumCandidateUrls == 3

\* index of the first candidate whose HEAD probe answers 200, 0 if none
FirstOk(probes) ==
  IF \E i \in 1..NumCandidateUrls : probes[i] = "200"
  THEN CHOOSE i \in 1..NumCandidateUrls :
         /\ probes[i] = "200"
         /\ \A j \in 1..(i - 1) : probes[j] /= "200"
  ELSE 0

\* a mutant: every candidate is probed and the last good one is returned
get_clip_download_url_last_ok(probes, fallback) ==
  LET ok == { i \in 1..NumCandidateUrls : probes[i] = "200" } IN
  IF ok /= {}
  THEN [url |-> "cdn", which |-> CHOOSE i \in ok : \A j \in ok : j <= i,
        probed |-> NumCandidateUrls, fallback |-> FALSE, exc |-> FALSE]
  ELSE [url |-> IF fallback = "url" THEN "ytdlp" ELSE "None",
        which |-> 0, probed |-> NumCandidateUrls, fallback |-> TRUE,
        exc |-> FALSE]

\* get_clip_download_url: the URL found ("None" if none), how many
\* candidates were probed, and whether the yt-dlp fallback ran
get_clip_download_url(probes, fallback) ==
  LET first == FirstOk(probes) IN
  IF first > 0
  THEN [url |-> "cdn", which |-> first, probed |-> first, fallback |-> FALSE,
        exc |-> FALSE]
  ELSE [url |-> IF fallback = "url" THEN "ytdlp" ELSE "None",
        which |-> 0, probed |-> NumCandidateUrls, fallback |-> TRUE,
        exc |-> FALSE]

\* what the GET of the media and the write of the file can do
GetOutcomes == { "raise", "non200", "small", "big", "write_error" }

\* size classes of a path: no file, at most 1000 bytes, more
FileStates == { "absent", "small", "big" }

\* download_clip: the value returned and the file left in downloads/
download_clip(probes, fallback, get) ==
  LET found == get_clip_download_url(probes, fallback) IN
  IF found.url = "None" THEN [ret |-> FALSE, file |-> "absent"]
  ELSE IF get = "raise" THEN [ret |-> FALSE, file |-> "absent"]
  ELSE IF get = "non200" THEN [ret |-> FALSE, file |-> "absent"]
  ELSE IF get = "write_error" THEN [ret |-> FALSE, file |-> "small"]
  ELSE IF get = "big" THEN [ret |-> TRUE, file |-> "big"]
  ELSE [ret |-> FALSE, file |-> "small"]

\* ------------------------------------------------------------ transcript
TranscribeOutcomes == { "text", "no_text_key", "raise" }

\* what the engine can have heard, as sequences of characters
SpokenTexts == { << "W", "o", "w" >>, << "o", "m", "g", " ", "w", "i", "n" >> }

\* a mutant: the exception of transcribe is not turned into ""
transcribe_audio_error_text(model, outcome, text) ==
  IF model = "None" THEN << >>
  ELSE IF outcome = "raise" THEN << "w", "o", "w" >>
  ELSE IF outcome = "no_text_key" THEN << >>
  ELSE text

\* transcribe_audio: "" without a model or when transcribe raises,
\* result.get('text', '') otherwise
transcribe_audio(model, outcome, text) ==
  IF model = "None" THEN << >>
  ELSE IF outcome = "raise" THEN << >>
  ELSE IF outcome = "no_text_key" THEN << >>
  ELSE text

\* -------------------------------------------------------------- analyzer
\* a string is the sequence of its characters
Alphabet == { "w", "o", "g", "d", "W" }

\* str.lower() on one character
LowerChar(c) == IF c = "W" THEN "w" ELSE c

\* str.lower()
Lower(s) == [i \in 1..Len(s) |-> LowerChar(s[i])]

\* the categories, in the insertion order of highlight_keywords
Categories == << "excitement", "action", "reaction", "skill" >>

CategorySet == { Categories[i] : i \in 1..Len(Categories) }

\* highlight_keywords
highlight_keywords ==
  [ excitement |->
    << << "w", "o", "w" >>,
       << "a", "m", "a", "z", "i", "n", "g" >>,
       << "i", "n", "c", "r", "e", "d", "i", "b", "l", "e" >>,
       << "p", "e", "r", "f", "e", "c", "t" >>,
       << "c", "l", "u", "t", "c", "h" >>,
       << "i", "n", "s", "a", "n", "e" >>,
       << "c", "r", "a", "z", "y" >> >>,
    action |->
    << << "h", "e", "a", "d", "s", "h", "o", "t" >>,
       << "k", "i", "l", "l" >>,
       << "v", "i", "c", "t", "o", "r", "y" >>,
       << "w", "i", "n" >>,
       << "c", "h", "a", "m", "p", "i", "o", "n" >>,
       << "e", "l", "i", "m", "i", "n", "a", "t", "e", "d" >> >>,
    reaction |->
    << << "o", "m", "g" >>,
       << "w", "t", "f" >>,
       << "h", "o", "l", "y" >>,
       << "j", "e", "s", "u", "s" >>,
       << "g", "o", "d" >>,
       << "d", "a", "m", "n" >> >>,
    skill |->
    << << "p", "r", "o" >>,
       << "s", "k", "i", "l", "l", "e", "d" >>,
       << "t", "a", "l", "e", "n", "t" >>,
       << "g", "o", "d", "-", "t", "i", "e", "r" >>,
       << "m", "a", "s", "t", "e", "r", "c", "l", "a", "s", "s" >> >> ]

\* the keyword stands in s at position i
OccursAt(s, k, i) ==
  i >= 1 /\ i + Len(k) - 1 <= Len(s) /\ SubSeq(s, i, i + Len(k) - 1) = k

RECURSIVE CountFrom(_, _, _)
\* str.count from position i on: the scan goes left to right and, after a
\* match, resumes behind it
CountFrom(s, k, i) ==
  IF i + Len(k) - 1 > Len(s) THEN 0
  ELSE IF OccursAt(s, k, i) THEN 1 + CountFrom(s, k, i + Len(k))
  ELSE CountFrom(s, k, i + 1)

\* a mutant: every position where the keyword stands is counted
str_count_overlapping(s, k) ==
  Cardinality({ i \in 1..Len(s) : OccursAt(s, k, i) })

\* s.count(k) for a non-empty k
str_count(s, k) == CountFrom(s, k, 1)

RECURSIVE SumCounts(_, _, _)
\* sum(transcription_lower.count(keyword) for keyword in keywords[from..])
SumCounts(s, keywords, from) ==
  IF from > Len(keywords) THEN 0
  ELSE str_count(s, keywords[from]) + SumCounts(s, keywords, from + 1)

\* category_score of one category for a transcript
category_score(transcription, category) ==
  SumCounts(Lower(transcription), highlight_keywords[category], 1)

RECURSIVE MaxFrom(_, _, _)
\* max(categories.items(), key=score) over the items from..: the first
\* item with the highest score is kept
MaxFrom(scores, from, best) ==
  IF from > Len(Categories) THEN best
  ELSE IF scores[Categories[from]] > scores[best]
       THEN MaxFrom(scores, from + 1, Categories[from])
       ELSE MaxFrom(scores, from + 1, best)

RECURSIVE MaxFromLast(_, _, _)
MaxFromLast(scores, from, best) ==
  IF from > Len(Categories) THEN best
  ELSE IF scores[Categories[from]] >= scores[best]
       THEN MaxFromLast(scores, from + 1, Categories[from])
       ELSE MaxFromLast(scores, from + 1, best)

\* a mutant: among equal highest scores the last category wins
dominant_emotion_last(scores) ==
  LET max_category == MaxFromLast(scores, 2, Categories[1]) IN
  IF scores[max_category] > 0 THEN max_category ELSE "neutral"

\* lines 388-392: the dominant emotion for the scores of the categories
dominant_emotion(scores) ==
  LET max_category == MaxFrom(scores, 2, Categories[1]) IN
  IF scores[max_category] > 0 THEN max_category ELSE "neutral"

\* analyze_content
analyze_content(transcription) ==
  LET categories ==
        [c \in CategorySet |-> category_score(transcription, c)]
  IN [total_score |->
        categories["excitement"] + categories["action"]
          + categories["reaction"] + categories["skill"],
      categories |-> categories,
      dominant_emotion |-> dominant_emotion(categories)]

\* ----------------------------------------------------------- reformatter
VerticalOutcomes == { "open_error", "too_short", "encode_error", "ok" }

\* create_vertical_video: the value returned and the file left in processed/
create_vertical_video(outcome) ==
  IF outcome = "ok" THEN [ret |-> TRUE, file |-> "big"]
  ELSE [ret |-> FALSE, file |-> "absent"]

TrimOutcomes == { "open_error", "encode_error", "ok" }

\* trim_video: the value returned and the file left in uploads/
trim_video(outcome) ==
  IF outcome = "ok" THEN [ret |-> TRUE, file |-> "big"]
  ELSE [ret |-> FALSE, file |-> "absent"]

\* what the media library does when it opens and encodes: raise or not
LibraryOutcomes == { "open_error", "encode_error", "ok" }

\* lines 407-412 and the except clause: which way create_vertical_video
\* goes for a source of the given duration (in tenths of a second)
vertical_outcome(duration10, lib) ==
  IF lib = "open_error" THEN "open_error"
  ELSE IF duration10 < 10 THEN "too_short"
  ELSE IF lib = "encode_error" THEN "encode_error"
  ELSE "ok"

\* line 419: video.w / video.h > 1080 / 1920
TooWide(w, h) == w * target_height > h * target_width

\* lines 419-430: the region kept by the crop; int() of the non-negative
\* values is the integer part
crop_box(w, h) ==
  IF TooWide(w, h)
  THEN LET new_width == (h * target_width) \div target_height
           x1 == (w - new_width) \div 2
       IN [x1 |-> x1, x2 |-> x1 + new_width, y1 |-> 0, y2 |-> h]
  ELSE LET new_height == (w * target_height) \div target_width
           y1 == (h - new_height) \div 2
       IN [x1 |-> 0, x2 |-> w, y1 |-> y1, y2 |-> y1 + new_height]

\* line 433: the frame size after the resize
output_size(w, h) == << target_width, target_height >>

Max(a, b) == IF a > b THEN a ELSE b

\* a mutant: the first max_duration seconds are kept
trim_subclip_from_start(duration, max_duration) ==
  IF duration > max_duration
  THEN [start2 |-> 0, end2 |-> 2 * max_duration]
  ELSE [start2 |-> 0, end2 |-> 2 * duration]

\* lines 468-472: the part of the source trim_video writes, in half
\* seconds, so that (duration - max_duration) / 2 stays exact
trim_subclip(duration, max_duration) ==
  IF duration > max_duration
  THEN LET start2 == Max(0, duration - max_duration)
       IN [start2 |-> start2, end2 |-> start2 + 2 * max_duration]
  ELSE [start2 |-> 0, end2 |-> 2 * duration]

\* -------------------------------------------------------------- uploader
Locations == { "url", "missing" }

InitResponses ==
  { [kind |-> "raise", status |-> 0, location |-> "missing"] } \cup
  [ kind : {"http"}, status : Statuses, location : Locations ]

\* the body of the PUT answer: JSON with an id, with an empty id, without
\* the key, or no JSON
PutBodies == { "id", "empty_id", "no_id", "not_json" }

PutResponses ==
  { [kind |-> "raise", status |-> 0, body |-> "not_json"] } \cup
  [ kind : {"http"}, status : Statuses, body : PutBodies ]

\* the statuses both upload steps accept
SuccessStatuses == { 200, 201 }

\* the statements inside the try block of upload_to_youtube_shorts: the
\* value returned, the requests made in order, and whether a statement
\* raised (a request, open() of the media file, or json() of the answer)
upload_try_body(tokenResp, init, readable, put) ==
  LET tok == get_fresh_access_token(tokenResp) IN
  IF tok.exc
  THEN [exc |-> TRUE, ret |-> FALSE, requests |-> <<"token">>]
  ELSE IF ~Truthy(tok.val)
       THEN [exc |-> FALSE, ret |-> FALSE, requests |-> <<"token">>]
  ELSE IF init.kind = "raise"
       THEN [exc |-> TRUE, ret |-> FALSE, requests |-> <<"token", "POST">>]
  ELSE IF init.status \notin SuccessStatuses
       THEN [exc |-> FALSE, ret |-> FALSE, requests |-> <<"token", "POST">>]
  ELSE IF init.location = "missing"
       THEN [exc |-> FALSE, ret |-> FALSE, requests |-> <<"token", "POST">>]
  ELSE IF ~readable
       THEN [exc |-> TRUE, ret |-> FALSE, requests |-> <<"token", "POST">>]
  ELSE IF put.kind = "raise"
       THEN [exc |-> TRUE, ret |-> FALSE,
             requests |-> <<"token", "POST", "PUT">>]
  ELSE IF put.status \in SuccessStatuses
       THEN IF put.body = "not_json"
            THEN [exc |-> TRUE, ret |-> FALSE,
                  requests |-> <<"token", "POST", "PUT">>]
            ELSE [exc |-> FALSE, ret |-> put.body = "id",
                  requests |-> <<"token", "POST", "PUT">>]
  ELSE [exc |-> FALSE, ret |-> FALSE, requests |-> <<"token", "POST", "PUT">>]

\* a mutant: the Location header is not checked before the PUT
upload_to_youtube_shorts_no_location_check(tokenResp, init, readable, put) ==
  LET tok == get_fresh_access_token(tokenResp) IN
  IF ~Truthy(tok.val)
  THEN [exc |-> FALSE, ret |-> FALSE, requests |-> <<"token">>]
  ELSE IF init.kind = "raise" \/ init.status \notin SuccessStatuses
       THEN [exc |-> FALSE, ret |-> FALSE, requests |-> <<"token", "POST">>]
  ELSE IF ~readable
       THEN [exc |-> FALSE, ret |-> FALSE, requests |-> <<"token", "POST">>]
  ELSE [exc |-> FALSE,
        ret |-> put.kind = "http" /\ put.status \in SuccessStatuses
                  /\ put.body = "id",
        requests |-> <<"token", "POST", "PUT">>]

\* a mutant: the except clause of lines 601-603 is missing
upload_to_youtube_shorts_uncaught(tokenResp, init, readable, put) ==
  upload_try_body(tokenResp, init, readable, put)

\* upload_to_youtube_shorts: the value returned and the requests made, in
\* order; every exception is caught and turned into False
upload_to_youtube_shorts(tokenResp, init, readable, put) ==
  LET body == upload_try_body(tokenResp, init, readable, put) IN
  [exc |-> FALSE,
   ret |-> IF body.exc THEN FALSE ELSE body.ret,
   requests |-> body.requests]

\* ================================================================ state
VARIABLES
  env,               \* the process environment, per key
  WHISPER_AVAILABLE, \* module level: `import whisper` succeeded
  self,              \* the fields __init__ sets on the automation object
  dirs,              \* the directories created so far
  loadStarted,       \* whisper.load_model has been called
  configError,       \* the keys the configuration exception names
  pc,                \* position of the single thread of control
  clips,             \* the value get_twitch_clips returned
  idx,               \* how many elements of clips[:6] the loop has taken
  clip,              \* shape of the record the loop holds
  processed_count,   \* process_clips' counter of successful uploads
  transcription,     \* the transcript of the current clip
  fs,                \* the clip artifacts on disk, per path
  stageLog,          \* the stages invoked for the current clip, with results
  uploadAttempts,    \* calls of upload_to_youtube_shorts in this run
  slept,             \* seconds spent in time.sleep in this run
  result,            \* what process_clips returned
  escaped,           \* an exception left process_clips
  mainReturn,        \* what main() returned
  exitCode,          \* the exit status of the process
  args,              \* the inputs of a function applied on its own
  out,               \* what that function gave
  content_analysis,  \* what analyze_content gave for the current clip
  transcribeFailed,  \* no model, or transcribe raised, for the current clip
  uploadSuccesses    \* calls of upload_to_youtube_shorts that returned True

vars ==
  << env, WHISPER_AVAILABLE, self, dirs, loadStarted, configError, pc, clips,
     idx, clip, processed_count, transcription, fs, stageLog, uploadAttempts,
     slept, result, escaped, mainReturn, exitCode, args, out,
     content_analysis, transcribeFailed, uploadSuccesses >>

\* ---------------------------------------------------------------- shapes
\* number of candidates the loop takes at most: clips[:max_uploads * 2]
MaxCandidates == max_uploads * 2

\* a clip record as the loop meets it: a mapping with the three keys, a
\* mapping lacking one of them, or an element that is no mapping at all.
\* The shape of each element is drawn when the loop takes it.
ClipShapes == { "ok", "missing_key", "not_a_mapping" }

ArtifactDirs == { "downloads", "processed", "uploads" }

\* downloads/twitch_clip_<id>.mp4, processed/vertical_twitch_clip_<id>.mp4,
\* uploads/final_twitch_clip_<id>.mp4; the id of the i-th clip is i
Paths == ArtifactDirs \X (1..MaxCandidates)

input_path(i) == << "downloads", i >>

vertical_path(i) == << "processed", i >>

final_path(i) == << "uploads", i >>

NoFiles == [p \in Paths |-> "absent"]

NoArgs == [fn |-> "none"]

NoOut == [fn |-> "none"]

NoSelf ==
  [creds |-> [k \in RequiredKeys |-> "None"], youtube_streamers |-> "unset",
   whisper_model |-> "None"]

\* no call of analyze_content yet for the current clip
NoAnalysis ==
  [total_score |-> -1, categories |-> [c \in CategorySet |-> -1],
   dominant_emotion |-> "none"]

\* ----------------------------------------------------------------- Init
\* the module is imported and nothing is constructed yet
Started ==
  /\ self = NoSelf
  /\ dirs = {}
  /\ loadStarted = FALSE
  /\ configError = << >>
  /\ clips = NoneValue
  /\ idx = 0
  /\ clip = "none"
  /\ processed_count = 0
  /\ transcription = << >>
  /\ content_analysis = NoAnalysis
  /\ transcribeFailed = FALSE
  /\ uploadSuccesses = 0
  /\ fs = NoFiles
  /\ stageLog = << >>
  /\ uploadAttempts = 0
  /\ slept = 0
  /\ result = -1
  /\ escaped = FALSE
  /\ mainReturn = -1
  /\ exitCode = -1

\* every environment, with and without the whisper package
CtorInit ==
  /\ env \in [EnvKeys -> EnvValues]
  /\ WHISPER_AVAILABLE \in BOOLEAN
  /\ pc = "init_env"
  /\ args = NoArgs
  /\ out = NoOut
  /\ Started

\* the environments of the pipeline runs: every setting is there, or one
\* required setting is absent or empty; the whisper package is installed
\* (process_clips reads self.whisper_model only, which a failed load of
\* the installed package leaves None as well)
PipelineEnvs ==
  { e \in [EnvKeys -> EnvValues] :
      /\ e["YOUTUBE_STREAMERS"] = "set"
      /\ Cardinality({ k \in RequiredKeys : e[k] /= "set" }) <= 1 }

Init ==
  /\ env \in PipelineEnvs
  /\ WHISPER_AVAILABLE = TRUE
  /\ pc = "init_env"
  /\ args = NoArgs
  /\ out = NoOut
  /\ Started

\* ------------------------------------------------------------- __init__
\* lines 49-58: the settings are read from the environment
InitReadEnv ==
  /\ pc = "init_env"
  /\ self' = [self EXCEPT
       !.creds = [k \in RequiredKeys |-> getenv(env, k)],
       !.youtube_streamers = getenv_default(env, "YOUTUBE_STREAMERS")]
  /\ pc' = "init_whisper"
  /\ UNCHANGED << env, WHISPER_AVAILABLE, dirs, loadStarted, configError,
                  clips, idx, clip, processed_count, transcription, fs,
                  stageLog, uploadAttempts, slept, result,
                  escaped, mainReturn, exitCode, args, out,
                  content_analysis, transcribeFailed, uploadSuccesses >>

\* lines 61-69: the model is loaded when the package is there; a failing
\* load is logged and leaves whisper_model None
InitWhisper ==
  /\ pc = "init_whisper"
  /\ IF WHISPER_AVAILABLE
     THEN /\ loadStarted' = TRUE
          /\ \E loaded \in BOOLEAN :
               self' = [self EXCEPT
                 !.whisper_model = IF loaded THEN "model" ELSE "None"]
     ELSE UNCHANGED << loadStarted, self >>
  /\ pc' = "init_dirs"
  /\ UNCHANGED << env, WHISPER_AVAILABLE, dirs, configError, clips, idx,
                  clip, processed_count, transcription, fs, stageLog,
                  uploadAttempts, slept, result, escaped,
                  mainReturn, exitCode, args, out,
                  content_analysis, transcribeFailed, uploadSuccesses >>

\* lines 72-74
InitDirs ==
  /\ pc = "init_dirs"
  /\ dirs' = dirs \cup ArtifactDirs
  /\ pc' = "init_validate"
  /\ UNCHANGED << env, WHISPER_AVAILABLE, self, loadStarted, configError,
                  clips, idx, clip, processed_count, transcription, fs,
                  stageLog, uploadAttempts, slept, result,
                  escaped, mainReturn, exitCode, args, out,
                  content_analysis, transcribeFailed, uploadSuccesses >>

\* line 77 and _validate_credentials: raise when a setting is missing
InitValidate ==
  /\ pc = "init_validate"
  /\ LET missing_creds == validate_credentials(self.creds) IN
     IF missing_creds /= << >>
     THEN /\ configError' = missing_creds
          /\ pc' = "main_except"
     ELSE /\ configError' = << >>
          /\ pc' = "discover"
  /\ UNCHANGED << env, WHISPER_AVAILABLE, self, dirs, loadStarted, clips,
                  idx, clip, processed_count, transcription, fs, stageLog,
                  uploadAttempts, slept, result, escaped,
                  mainReturn, exitCode, args, out,
                  content_analysis, transcribeFailed, uploadSuccesses >>

\* -------------------------------------------------------- process_clips
Min(a, b) == IF a < b THEN a ELSE b

\* a mutant: the cap is compared with > instead of >=
upload_cap_reached_late(count) == count > max_uploads

\* line 619: the loop stops once the counter has reached the cap
upload_cap_reached(count) == count >= max_uploads

\* lines 632-634: a failed download skips the clip
after_download(ok) == IF ok THEN "verify" ELSE "loop"

\* a mutant: the result of the conversion is ignored
after_vertical_ungated(ok) == "trim"

\* lines 649-651: a failed conversion skips the clip
after_vertical(ok) == IF ok THEN "trim" ELSE "loop"

\* lines 654-656: a failed trim skips the clip
after_trim(ok) == IF ok THEN "title" ELSE "loop"

\* a mutant: a failed upload skips the rest of the iteration
after_upload_skip_on_failure(ok) == IF ok THEN "cleanup" ELSE "loop"

\* lines 664-668: both branches of the upload fall through to the cleanup
after_upload(ok) == "cleanup"

\* lines 664-665: only a successful upload is counted
count_after_upload(count, ok) == IF ok THEN count + 1 ELSE count

\* line 682: the handler calls clip.get, which only a mapping has
handler_raises(shape) == shape = "not_a_mapping"

\* lines 699-700: the module calls main() and drops what it returns, so
\* the interpreter ends with status 0
exit_status(returned) == 0

Log(stage, ok) == Append(stageLog, << stage, ok >>)

\* everything get_twitch_clips can give, over all answers of the endpoints
DiscoveryResults ==
  { get_twitch_clips(tokenResp, userResp, clipsResp, n) :
      tokenResp \in TokenResponses, userResp \in UserResponses,
      clipsResp \in ClipsResponses, n \in 0..MaxClips }

\* everything download_clip can give
DownloadResults ==
  { download_clip(probes, fallback, get) :
      probes \in [1..NumCandidateUrls -> ProbeOutcomes],
      fallback \in FallbackOutcomes, get \in GetOutcomes }

\* everything upload_to_youtube_shorts can return
UploadResults ==
  { upload_to_youtube_shorts(tokenResp, init, readable, put).ret :
      tokenResp \in TokenResponses, init \in InitResponses,
      readable \in BOOLEAN, put \in PutResponses }

\* lines 607-616: discovery, and the early return when nothing was found
Discover ==
  /\ pc = "discover"
  /\ \E r \in DiscoveryResults :
       IF r.exc
       THEN /\ escaped' = TRUE
            /\ pc' = "main_except"
            /\ UNCHANGED << clips, result >>
       ELSE /\ clips' = r.val
            /\ escaped' = FALSE
            /\ IF NonEmpty(r.val)
               THEN pc' = "loop" /\ result' = result
               ELSE pc' = "main_return" /\ result' = 0
  /\ UNCHANGED << env, WHISPER_AVAILABLE, self, dirs, loadStarted,
                  configError, idx, clip, processed_count, transcription, fs,
                  stageLog, uploadAttempts, slept, mainReturn, exitCode,
                  args, out,
                  content_analysis, transcribeFailed, uploadSuccesses >>

\* lines 618-620: the loop takes the next element of clips[:6], if any,
\* and breaks when the cap is reached
ForNext ==
  /\ pc = "loop"
  /\ IF idx < Min(clips.len, MaxCandidates)
     THEN /\ idx' = idx + 1
          /\ IF upload_cap_reached(processed_count)
             THEN pc' = "finish" /\ clip' = "none"
             ELSE pc' = "read_clip" /\ clip' \in ClipShapes
     ELSE /\ pc' = "finish"
          /\ clip' = "none"
          /\ idx' = idx
  /\ stageLog' = << >>
  /\ transcription' = << >>
  /\ content_analysis' = NoAnalysis
  /\ transcribeFailed' = FALSE
  /\ UNCHANGED << env, WHISPER_AVAILABLE, self, dirs, loadStarted,
                  configError, clips, processed_count, fs, uploadAttempts,
                  slept, result, escaped, mainReturn, exitCode, args, out,
                  uploadSuccesses >>

\* lines 623-628: clip['id'], clip['title'], clip['url']
ReadClip ==
  /\ pc = "read_clip"
  /\ pc' = IF clip = "ok" THEN "download" ELSE "except"
  /\ UNCHANGED << env, WHISPER_AVAILABLE, self, dirs, loadStarted,
                  configError, clips, idx, clip, processed_count,
                  transcription, fs, stageLog, uploadAttempts, slept,
                  result, escaped, mainReturn, exitCode, args, out,
                  content_analysis, transcribeFailed, uploadSuccesses >>

\* lines 681-683: the per-clip handler logs clip.get('id', 'unknown') and
\* continues; an exception raised by the handler itself leaves process_clips
ClipException ==
  /\ pc = "except"
  /\ IF handler_raises(clip)
     THEN escaped' = TRUE /\ pc' = "main_except"
     ELSE escaped' = escaped /\ pc' = "loop"
  /\ UNCHANGED << env, WHISPER_AVAILABLE, self, dirs, loadStarted,
                  configError, clips, idx, clip, processed_count,
                  transcription, fs, stageLog, uploadAttempts, slept,
                  result, mainReturn, exitCode, args, out,
                  content_analysis, transcribeFailed, uploadSuccesses >>

\* lines 631-634
Download ==
  /\ pc = "download"
  /\ \E r \in DownloadResults :
       /\ fs' = [fs EXCEPT ![input_path(idx)] = r.file]
       /\ stageLog' = Log("download", r.ret)
       /\ pc' = after_download(r.ret)
  /\ UNCHANGED << env, WHISPER_AVAILABLE, self, dirs, loadStarted,
                  configError, clips, idx, clip, processed_count,
                  transcription, uploadAttempts, slept, result, escaped,
                  mainReturn, exitCode, args, out,
                  content_analysis, transcribeFailed, uploadSuccesses >>

\* lines 636-641: the downloaded file is looked at once more
VerifyDownload ==
  /\ pc = "verify"
  /\ pc' = IF fs[input_path(idx)] = "big" THEN "transcribe" ELSE "loop"
  /\ UNCHANGED << env, WHISPER_AVAILABLE, self, dirs, loadStarted,
                  configError, clips, idx, clip, processed_count,
                  transcription, fs, stageLog, uploadAttempts, slept,
                  result, escaped, mainReturn, exitCode, args, out,
                  content_analysis, transcribeFailed, uploadSuccesses >>

\* line 644
Transcribe ==
  /\ pc = "transcribe"
  /\ \E outcome \in TranscribeOutcomes, text \in SpokenTexts :
       /\ transcription' = transcribe_audio(self.whisper_model, outcome, text)
       /\ transcribeFailed' =
            (self.whisper_model = "None" \/ outcome = "raise")
  /\ stageLog' = Log("transcribe", TRUE)
  /\ pc' = "analyze"
  /\ UNCHANGED << env, WHISPER_AVAILABLE, self, dirs, loadStarted,
                  configError, clips, idx, clip, processed_count, fs,
                  uploadAttempts, slept, result, escaped, mainReturn,
                  exitCode, args, out,
                  content_analysis, uploadSuccesses >>

\* line 645
Analyze ==
  /\ pc = "analyze"
  /\ content_analysis' = analyze_content(transcription)
  /\ stageLog' = Log("analyze", TRUE)
  /\ pc' = "vertical"
  /\ UNCHANGED << env, WHISPER_AVAILABLE, self, dirs, loadStarted,
                  configError, clips, idx, clip, processed_count,
                  transcription, fs, uploadAttempts, slept, result, escaped,
                  mainReturn, exitCode, args, out,
                  transcribeFailed, uploadSuccesses >>

\* lines 648-651
Vertical ==
  /\ pc = "vertical"
  /\ \E outcome \in VerticalOutcomes :
       LET r == create_vertical_video(outcome) IN
       /\ fs' = [fs EXCEPT ![vertical_path(idx)] = r.file]
       /\ stageLog' = Log("create_vertical_video", r.ret)
       /\ pc' = after_vertical(r.ret)
  /\ UNCHANGED << env, WHISPER_AVAILABLE, self, dirs, loadStarted,
                  configError, clips, idx, clip, processed_count,
                  transcription, uploadAttempts, slept, result, escaped,
                  mainReturn, exitCode, args, out,
                  content_analysis, transcribeFailed, uploadSuccesses >>

\* lines 653-656
Trim ==
  /\ pc = "trim"
  /\ \E outcome \in TrimOutcomes :
       LET r == trim_video(outcome) IN
       /\ fs' = [fs EXCEPT ![final_path(idx)] = r.file]
       /\ stageLog' = Log("trim_video", r.ret)
       /\ pc' = after_trim(r.ret)
  /\ UNCHANGED << env, WHISPER_AVAILABLE, self, dirs, loadStarted,
                  configError, clips, idx, clip, processed_count,
                  transcription, uploadAttempts, slept, result, escaped,
                  mainReturn, exitCode, args, out,
                  content_analysis, transcribeFailed, uploadSuccesses >>

\* lines 659-661
Title ==
  /\ pc = "title"
  /\ stageLog' = Log("generate_engaging_title", TRUE)
  /\ pc' = "upload"
  /\ UNCHANGED << env, WHISPER_AVAILABLE, self, dirs, loadStarted,
                  configError, clips, idx, clip, processed_count,
                  transcription, fs, uploadAttempts, slept, result, escaped,
                  mainReturn, exitCode, args, out,
                  content_analysis, transcribeFailed, uploadSuccesses >>

\* lines 664-668
Upload ==
  /\ pc = "upload"
  /\ \E ok \in UploadResults :
       /\ processed_count' = count_after_upload(processed_count, ok)
       /\ stageLog' = Log("upload_to_youtube_shorts", ok)
       /\ pc' = after_upload(ok)
       /\ uploadSuccesses' = uploadSuccesses + (IF ok THEN 1 ELSE 0)
  /\ uploadAttempts' = uploadAttempts + 1
  /\ UNCHANGED << env, WHISPER_AVAILABLE, self, dirs, loadStarted,
                  configError, clips, idx, clip, transcription, fs, slept,
                  result, escaped, mainReturn, exitCode, args, out,
                  content_analysis, transcribeFailed >>

\* lines 671-676: the three artifacts of the clip are removed
Cleanup ==
  /\ pc = "cleanup"
  /\ fs' = [p \in Paths |->
              IF p \in { input_path(idx), vertical_path(idx), final_path(idx) }
              THEN "absent" ELSE fs[p]]
  /\ pc' = "sleep"
  /\ UNCHANGED << env, WHISPER_AVAILABLE, self, dirs, loadStarted,
                  configError, clips, idx, clip, processed_count,
                  transcription, stageLog, uploadAttempts, slept, result,
                  escaped, mainReturn, exitCode, args, out,
                  content_analysis, transcribeFailed, uploadSuccesses >>

\* line 679: time.sleep(30)
Sleep ==
  /\ pc = "sleep"
  /\ slept' = slept + SleepSeconds
  /\ pc' = "loop"
  /\ UNCHANGED << env, WHISPER_AVAILABLE, self, dirs, loadStarted,
                  configError, clips, idx, clip, processed_count,
                  transcription, fs, stageLog, uploadAttempts, result,
                  escaped, mainReturn, exitCode, args, out,
                  content_analysis, transcribeFailed, uploadSuccesses >>

\* lines 685-686
Finish ==
  /\ pc = "finish"
  /\ result' = processed_count
  /\ pc' = "main_return"
  /\ UNCHANGED << env, WHISPER_AVAILABLE, self, dirs, loadStarted,
                  configError, clips, idx, clip, processed_count,
                  transcription, fs, stageLog, uploadAttempts, slept,
                  escaped, mainReturn, exitCode, args, out,
                  content_analysis, transcribeFailed, uploadSuccesses >>

\* ----------------------------------------------------------------- main
\* lines 693 and 697: the try block ended normally
MainReturn ==
  /\ pc = "main_return"
  /\ mainReturn' = 0
  /\ pc' = "exit"
  /\ UNCHANGED << env, WHISPER_AVAILABLE, self, dirs, loadStarted,
                  configError, clips, idx, clip, processed_count,
                  transcription, fs, stageLog, uploadAttempts, slept,
                  result, escaped, exitCode, args, out,
                  content_analysis, transcribeFailed, uploadSuccesses >>

\* lines 694-696: an exception of __init__ or process_clips is caught
MainExcept ==
  /\ pc = "main_except"
  /\ mainReturn' = 1
  /\ pc' = "exit"
  /\ UNCHANGED << env, WHISPER_AVAILABLE, self, dirs, loadStarted,
                  configError, clips, idx, clip, processed_count,
                  transcription, fs, stageLog, uploadAttempts, slept,
                  result, escaped, exitCode, args, out,
                  content_analysis, transcribeFailed, uploadSuccesses >>

\* lines 699-700: the script ends
ProcessExit ==
  /\ pc = "exit"
  /\ exitCode' = exit_status(mainReturn)
  /\ pc' = "done"
  /\ UNCHANGED << env, WHISPER_AVAILABLE, self, dirs, loadStarted,
                  configError, clips, idx, clip, processed_count,
                  transcription, fs, stageLog, uploadAttempts, slept,
                  result, escaped, mainReturn, args, out,
                  content_analysis, transcribeFailed, uploadSuccesses >>

Next ==
  \/ InitReadEnv \/ InitWhisper \/ InitDirs \/ InitValidate
  \/ Discover \/ ForNext \/ ReadClip \/ ClipException \/ Download
  \/ VerifyDownload \/ Transcribe \/ Analyze \/ Vertical \/ Trim \/ Title
  \/ Upload \/ Cleanup \/ Sleep \/ Finish
  \/ MainReturn \/ MainExcept \/ ProcessExit

Spec == Init /\ [][Next]_vars

\* the constructor alone, from every environment
CtorNext == InitReadEnv \/ InitWhisper \/ InitDirs \/ InitValidate

SpecCtor == CtorInit /\ [][CtorNext]_vars

\* ------------------------------------- the token and discovery functions
\* applied on their own to every answer the endpoints can give
AllSet == [k \in EnvKeys |-> "set"]

TokensInit ==
  /\ env = AllSet
  /\ WHISPER_AVAILABLE = TRUE
  /\ pc = "call"
  /\ \E tokenResp \in TokenResponses, userResp \in UserResponses,
        clipsResp \in ClipsResponses, n \in 0..MaxClips :
       args = [tokenResp |-> tokenResp, userResp |-> userResp,
               clipsResp |-> clipsResp, n |-> n]
  /\ out = NoOut
  /\ Started

Unused ==
  UNCHANGED << env, WHISPER_AVAILABLE, self, dirs, loadStarted, configError,
               clips, idx, clip, processed_count, transcription, fs,
               stageLog, uploadAttempts, slept, result, escaped, mainReturn,
               exitCode, args,
               content_analysis, transcribeFailed, uploadSuccesses >>

CallTwitchToken ==
  /\ pc = "call"
  /\ out' = [fn |-> "get_twitch_oauth_token",
             r |-> get_twitch_oauth_token(args.tokenResp)]
  /\ pc' = "returned"
  /\ Unused

CallFreshToken ==
  /\ pc = "call"
  /\ out' = [fn |-> "get_fresh_access_token",
             r |-> get_fresh_access_token(args.tokenResp)]
  /\ pc' = "returned"
  /\ Unused

CallGetTwitchClips ==
  /\ pc = "call"
  /\ out' = [fn |-> "get_twitch_clips",
             r |-> get_twitch_clips(args.tokenResp, args.userResp,
                                    args.clipsResp, args.n)]
  /\ pc' = "returned"
  /\ Unused

TokensNext == CallTwitchToken \/ CallFreshToken \/ CallGetTwitchClips

SpecTokens == TokensInit /\ [][TokensNext]_vars

\* ------------------------------------------------ the uploader on its own
UploadInit ==
  /\ env = AllSet
  /\ WHISPER_AVAILABLE = TRUE
  /\ pc = "call"
  /\ \E tokenResp \in TokenResponses, init \in InitResponses,
        readable \in BOOLEAN, put \in PutResponses :
       args = [tokenResp |-> tokenResp, init |-> init,
               readable |-> readable, put |-> put]
  /\ out = NoOut
  /\ Started

CallUpload ==
  /\ pc = "call"
  /\ out' = [fn |-> "upload_to_youtube_shorts",
             r |-> upload_to_youtube_shorts(args.tokenResp, args.init,
                                            args.readable, args.put)]
  /\ pc' = "returned"
  /\ Unused

UploadNext == CallUpload

SpecUpload == UploadInit /\ [][UploadNext]_vars

\* ------------------------------------------------ the analyzer on its own
Transcripts == UNION { [1..n -> Alphabet] : n \in 0..MaxLen }

NoScores == [c \in CategorySet |-> 0]

\* a transcript for analyze_content, or the scores of the four categories
\* for the choice of the dominant emotion
AnalyzeInit ==
  /\ env = AllSet
  /\ WHISPER_AVAILABLE = TRUE
  /\ pc = "call"
  /\ \/ \E t \in Transcripts :
          args = [transcription |-> t, scores |-> NoScores]
     \/ \E sc \in [CategorySet -> 0..MaxScore] :
          args = [transcription |-> << >>, scores |-> sc]
  /\ out = NoOut
  /\ Started

CallAnalyze ==
  /\ pc = "call"
  /\ out' = [fn |-> "analyze_content",
             r |-> analyze_content(args.transcription)]
  /\ pc' = "returned"
  /\ Unused

CallDominant ==
  /\ pc = "call"
  /\ out' = [fn |-> "dominant_emotion", r |-> dominant_emotion(args.scores)]
  /\ pc' = "returned"
  /\ Unused

AnalyzeNext == CallAnalyze \/ CallDominant

SpecAnalyze == AnalyzeInit /\ [][AnalyzeNext]_vars

\* --------------------------------------------- the reformatter on its own
TrimInit ==
  /\ env = AllSet
  /\ WHISPER_AVAILABLE = TRUE
  /\ pc = "call"
  /\ \E d \in 0..MaxDuration, m \in 1..MaxCap, o \in TrimOutcomes :
       args = [duration |-> d, max_duration |-> m, outcome |-> o]
  /\ out = NoOut
  /\ Started

CallTrim ==
  /\ pc = "call"
  /\ out' = [fn |-> "trim_video", r |-> trim_video(args.outcome),
             span |-> trim_subclip(args.duration, args.max_duration)]
  /\ pc' = "returned"
  /\ Unused

TrimNext == CallTrim

SpecTrim == TrimInit /\ [][TrimNext]_vars

Dimensions == (1..MaxDim) \cup { 1080, 1920 }

Durations10 == { 0, 9, 10, 300 }

VerticalInit ==
  /\ env = AllSet
  /\ WHISPER_AVAILABLE = TRUE
  /\ pc = "call"
  /\ \E w \in Dimensions, h \in Dimensions, d \in Durations10,
        lib \in LibraryOutcomes :
       args = [w |-> w, h |-> h, duration10 |-> d, lib |-> lib]
  /\ out = NoOut
  /\ Started

CallVertical ==
  /\ pc = "call"
  /\ out' = [fn |-> "create_vertical_video",
             r |-> create_vertical_video(
                     vertical_outcome(args.duration10, args.lib)),
             box |-> crop_box(args.w, args.h),
             size |-> output_size(args.w, args.h)]
  /\ pc' = "returned"
  /\ Unused

VerticalNext == CallVertical

SpecVertical == VerticalInit /\ [][VerticalNext]_vars

\* ------------------------------------------------- the fetcher on its own
FetchInit ==
  /\ env = AllSet
  /\ WHISPER_AVAILABLE = TRUE
  /\ pc = "call"
  /\ \E probes \in [1..NumCandidateUrls -> ProbeOutcomes],
        fallback \in FallbackOutcomes :
       args = [probes |-> probes, fallback |-> fallback]
  /\ out = NoOut
  /\ Started

CallGetUrl ==
  /\ pc = "call"
  /\ out' = [fn |-> "get_clip_download_url",
             r |-> get_clip_download_url(args.probes, args.fallback)]
  /\ pc' = "returned"
  /\ Unused

FetchNext == CallGetUrl

SpecFetch == FetchInit /\ [][FetchNext]_vars

\* =============================================================== claims
Range(q) == { q[i] : i \in 1..Len(q) }

\* the run is between two candidates or over
BetweenClips ==
  pc \in { "loop", "finish", "main_return", "main_except", "exit", "done" }

\* C1, as claimed: upload_to_youtube_shorts is invoked at most 3 times in
\* a run, failed attempts included
C1_AtMostThreeAttempts == uploadAttempts <= 3

\* C1, amended: upload_to_youtube_shorts is invoked at most 6 times in a
\* run, at most 3 invocations succeed, and none is made once 3 succeeded
C1_AtMostThreeSuccesses ==
  /\ uploadAttempts <= 6
  /\ processed_count <= 3
  /\ processed_count <= uploadAttempts
  /\ (pc = "upload" => processed_count < 3)

C1_Witness ==
  pc = "finish" /\ uploadAttempts = 6 /\ processed_count = 3

\* C2: when the next candidate starts or the run ends, none of the
\* artifacts of the clips processed so far is left on disk
C2_NoArtifactOutlivesClip ==
  BetweenClips => \A p \in Paths : fs[p] = "absent"

\* the stages of one clip, in the order of process_clips
StageOrder ==
  << "download", "transcribe", "analyze", "create_vertical_video",
     "trim_video", "generate_engaging_title", "upload_to_youtube_shorts" >>

\* C3: the stages invoked for a clip are an initial part of the fixed
\* order, and every stage but the last one invoked reported success
C3_StagesInOrderAndGated ==
  /\ Len(stageLog) <= Len(StageOrder)
  /\ \A i \in 1..Len(stageLog) :
       /\ stageLog[i][1] = StageOrder[i]
       /\ (i < Len(stageLog) => stageLog[i][2] = TRUE)

C3_Witness ==
  /\ pc = "loop"
  /\ Len(stageLog) = 5
  /\ stageLog[5] = << "trim_video", FALSE >>

\* the required settings the environment lacks
MissingInEnv == { k \in RequiredKeys : env[k] \in { "absent", "empty" } }

\* C4: while a required setting is missing, no directory is created and
\* no model load is started
C4_NoSideEffectWhenCredentialMissing ==
  MissingInEnv /= {} => (dirs = {} /\ ~loadStarted)

\* C5: once the credentials are validated, the constructor has raised iff
\* a required setting is absent or empty, and the error names exactly
\* those settings; YOUTUBE_STREAMERS plays no part
C5_RaisesIffMissingAndNamesThem ==
  pc \in { "discover", "main_except" } /\ ~escaped =>
    /\ (pc = "main_except") <=> (MissingInEnv /= {})
    /\ Range(configError) = MissingInEnv
    /\ Len(configError) = Cardinality(MissingInEnv)

C5_Witness ==
  /\ pc = "main_except"
  /\ env["YOUTUBE_STREAMERS"] = "absent"
  /\ MissingInEnv = { "TWITCH_CLIENT_ID", "YOUTUBE_API_KEY" }
  /\ env["TWITCH_CLIENT_ID"] = "empty"
  /\ env["YOUTUBE_API_KEY"] = "absent"
  /\ configError = << "TWITCH_CLIENT_ID", "YOUTUBE_API_KEY" >>

\* C6: the process ends with status 1 when __init__ or process_clips
\* raised, and with status 0 otherwise
C6_ExitCodeTellsFailure ==
  pc = "done" =>
    exitCode = IF configError /= << >> \/ escaped THEN 1 ELSE 0

\* the destination token endpoint answered 200 with a token
TokenObtained(resp) ==
  resp.kind = "http" /\ resp.status = 200 /\ resp.body = "token"

\* position of a request in the requests of a call, 0 if it was not made
Position(requests, what) ==
  IF \E i \in 1..Len(requests) : requests[i] = what
  THEN CHOOSE i \in 1..Len(requests) : requests[i] = what
  ELSE 0

\* C7: the PUT is made only after an initiation POST that answered 200 or
\* 201 with a Location header, the POST only after a token was obtained,
\* and a 200 without Location gives failure with no PUT
C7_PutOnlyAfterAcceptedInit ==
  out.fn = "upload_to_youtube_shorts" =>
    LET post == Position(out.r.requests, "POST")
        put == Position(out.r.requests, "PUT")
        token == Position(out.r.requests, "token")
    IN /\ put > 0 =>
            /\ post > 0 /\ post < put
            /\ args.init.kind = "http"
            /\ args.init.status \in { 200, 201 }
            /\ args.init.location = "url"
       /\ post > 0 =>
            /\ token > 0 /\ token < post
            /\ TokenObtained(args.tokenResp)
       /\ (args.init.kind = "http" /\ args.init.status = 200
             /\ args.init.location = "missing") =>
            (put = 0 /\ out.r.ret = FALSE)

C7_Witness ==
  /\ out.fn = "upload_to_youtube_shorts"
  /\ TokenObtained(args.tokenResp)
  /\ args.init = [kind |-> "http", status |-> 200, location |-> "missing"]
  /\ args.readable
  /\ out.r.ret = FALSE
  /\ out.r.requests = << "token", "POST" >>

\* C8: every upload attempt is followed by the 30 second delay before the
\* next candidate starts, and nothing else is
C8_DelayAfterEveryUploadOnly ==
  slept = 30 * (IF pc \in { "cleanup", "sleep" }
                THEN uploadAttempts - 1 ELSE uploadAttempts)

C8_Witness ==
  /\ pc = "read_clip"
  /\ idx = 3
  /\ uploadAttempts = 1
  /\ processed_count = 0
  /\ slept = 30

\* C9: no exception raised while a clip is processed leaves process_clips
C9_NoExceptionEscapes == ~escaped

\* the answers that make a lookup of get_twitch_clips fail
LookupFailed(resp) ==
  resp.kind = "raise" \/ resp.status /= 200 \/ resp.body /= "user"

ListingFailed(resp) ==
  resp.kind = "raise" \/ resp.status /= 200 \/ resp.body = "not_json"

RECURSIVE SumSeq(_)
SumSeq(q) == IF q = << >> THEN 0 ELSE Head(q) + SumSeq(Tail(q))

\* the positions where the keyword stands in s
Occurrences(s, k) == { i \in 1..Len(s) : OccursAt(s, k, i) }

\* the sum over the keywords of a category of f(keyword)
SumOverKeywords(category, f(_)) ==
  LET kws == highlight_keywords[category] IN
  SumSeq([i \in 1..Len(kws) |-> f(kws[i])])

\* the largest number of occurrences of k in s no two of which overlap
MaxDisjoint(s, k) ==
  LET disjoint ==
        { T \in SUBSET Occurrences(s, k) :
            \A i, j \in T : i < j => i + Len(k) <= j }
      sizes == { Cardinality(T) : T \in disjoint }
  IN CHOOSE n \in sizes : \A m \in sizes : m <= n

\* C11, as claimed: the score of a category is the sum over its keywords
\* of the number of positions where the keyword stands in the lower-cased
\* transcript, overlapping ones included, and total_score is the sum of
\* the four scores
C11_OverlappingCounts ==
  out.fn = "analyze_content" =>
    LET s == Lower(args.transcription)
        count(k) == Cardinality(Occurrences(s, k))
    IN /\ \A c \in CategorySet :
            out.r.categories[c] = SumOverKeywords(c, count)
       /\ out.r.total_score =
            SumSeq([i \in 1..Len(Categories) |->
                      out.r.categories[Categories[i]]])

\* C11, amended: the score of a category is the sum over its keywords of
\* the number of non-overlapping occurrences of the keyword in the
\* lower-cased transcript ('wowow' holds 'wow' once), and total_score is
\* the sum of the four scores
C11_NonOverlappingCounts ==
  out.fn = "analyze_content" =>
    LET s == Lower(args.transcription)
        count(k) == MaxDisjoint(s, k)
    IN /\ \A c \in CategorySet :
            out.r.categories[c] = SumOverKeywords(c, count)
       /\ out.r.total_score =
            SumSeq([i \in 1..Len(Categories) |->
                      out.r.categories[Categories[i]]])

C11_Witness ==
  /\ out.fn = "analyze_content"
  /\ args.transcription = << "W", "o", "w", "o", "w" >>
  /\ out.r.categories["excitement"] = 1
  /\ out.r.total_score = 1

\* the dominant emotion the claim gives for the scores of the categories
ClaimedDominant(scores) ==
  IF \A c \in CategorySet : scores[c] = 0 THEN "neutral"
  ELSE LET first ==
             CHOOSE i \in 1..Len(Categories) :
               /\ \A c \in CategorySet : scores[c] <= scores[Categories[i]]
               /\ \A j \in 1..(i - 1) :
                    scores[Categories[j]] < scores[Categories[i]]
       IN Categories[first]

\* C12: the dominant emotion is neutral when all four scores are zero, as
\* for the empty transcript, and otherwise the first category, in the
\* order excitement, action, reaction, skill, among those with the
\* highest score
C12_DominantIsFirstHighest ==
  /\ out.fn = "dominant_emotion" => out.r = ClaimedDominant(args.scores)
  /\ out.fn = "analyze_content" =>
       /\ out.r.dominant_emotion = ClaimedDominant(out.r.categories)
       /\ args.transcription = << >> =>
            (out.r.categories = NoScores /\ out.r.dominant_emotion = "neutral")

C12_Witness ==
  /\ out.fn = "dominant_emotion"
  /\ args.scores = [excitement |-> 0, action |-> 2, reaction |-> 1, skill |-> 2]
  /\ out.r = "action"

\* C13: a source no longer than the cap is written whole; a longer one
\* is cut to the centred interval [(d - m)/2, (d - m)/2 + m], so the
\* output lasts min(d, m) and lies inside [0, d]; for d = 50 and m = 40
\* the interval is [5, 45] (times are held in half seconds)
C13_CentredTrim ==
  (out.fn = "trim_video" /\ out.r.ret) =>
    LET d == args.duration
        m == args.max_duration
    IN /\ d <= m => out.span = [start2 |-> 0, end2 |-> 2 * d]
       /\ d > m => out.span = [start2 |-> d - m, end2 |-> (d - m) + 2 * m]
       /\ out.span.end2 - out.span.start2 = 2 * (IF d < m THEN d ELSE m)
       /\ 0 <= out.span.start2
       /\ out.span.end2 <= 2 * d
       /\ (d = 50 /\ m = 40) => out.span = [start2 |-> 10, end2 |-> 90]

C13_Witness ==
  /\ out.fn = "trim_video"
  /\ out.r.ret
  /\ args.duration = 50
  /\ args.max_duration = 40
  /\ out.span = [start2 |-> 10, end2 |-> 90]

\* what C14 says of a source at least 1 second long and wider than 9:16
\* that the library opens and encodes: success, a 1080x1920 output, and
\* a centred crop of full height inside the frame with a positive width
WideSourceConverted ==
  /\ out.r.ret
  /\ out.size = << 1080, 1920 >>
  /\ out.box.y1 = 0 /\ out.box.y2 = args.h
  /\ 0 <= out.box.x1
  /\ out.box.x2 <= args.w
  /\ out.box.x2 - out.box.x1 > 0
  /\ (args.w - out.box.x2) - out.box.x1 \in { 0, 1 }

\* what C14 says of a source shorter than 1 second
ShortSourceRejected ==
  args.duration10 < 10 => (~out.r.ret /\ out.r.file = "absent")

\* C14, as claimed: every source at least 1 second long and wider than
\* 9:16 is converted that way, and a shorter one is rejected
C14_EveryWideSource ==
  out.fn = "create_vertical_video" =>
    /\ (args.lib = "ok" /\ args.duration10 >= 10
          /\ args.w * 16 > args.h * 9) => WideSourceConverted
    /\ ShortSourceRejected

\* the sources at least 2 pixels high are converted as C14 says
WideSourceTwoPixelsHigh ==
  out.fn = "create_vertical_video" =>
    /\ (args.lib = "ok" /\ args.duration10 >= 10 /\ args.h >= 2
          /\ args.w * 16 > args.h * 9) => WideSourceConverted
    /\ ShortSourceRejected

\* process_clips was entered and has ended, by a return or an exception
ProcessClipsOver ==
  /\ configError = << >>
  /\ pc \in { "main_return", "main_except", "exit", "done" }

\* a candidate is being examined, up to and including its upload
ExaminingClip ==
  pc \in { "read_clip", "download", "verify", "transcribe", "analyze",
           "vertical", "trim", "title", "upload" }

\* the value returned is the number of successful uploads, from 0 to 3,
\* and is 0 with no stage invoked when discovery gave no clip
CountReturned ==
  /\ result \in 0..3
  /\ result = uploadSuccesses
  /\ ~NonEmpty(clips) =>
       /\ result = 0
       /\ idx = 0
       /\ uploadAttempts = 0
       /\ \A p \in Paths : fs[p] = "absent"

\* C15: process_clips examines at most 6 candidates, examines none once
\* 3 uploads succeeded, and always ends by returning the number of
\* successful uploads (0 with no stage invoked when no clip was found)
C15_ReturnsUploadCount ==
  /\ idx <= 6
  /\ ExaminingClip => uploadSuccesses < 3
  /\ ProcessClipsOver => (~escaped /\ CountReturned)

\* the same for the runs in which no exception leaves process_clips
ReturnsUploadCountUnlessRaised ==
  /\ idx <= 6
  /\ ExaminingClip => uploadSuccesses < 3
  /\ (ProcessClipsOver /\ ~escaped) => CountReturned

\* C16: upload_to_youtube_shorts returns True exactly when a token was
\* obtained, the initiation POST answered 200 or 201 with a Location
\* header, and the PUT was made and answered 200 or 201 with a JSON body
\* holding a non-empty id; an unreadable media file gives False; and the
\* call never raises
C16_SuccessIffAllStepsAccepted ==
  out.fn = "upload_to_youtube_shorts" =>
    /\ ~out.r.exc
    /\ out.r.ret <=>
         /\ TokenObtained(args.tokenResp)
         /\ args.init.kind = "http"
         /\ args.init.status \in { 200, 201 }
         /\ args.init.location = "url"
         /\ Position(out.r.requests, "PUT") > 0
         /\ args.put.kind = "http"
         /\ args.put.status \in { 200, 201 }
         /\ args.put.body = "id"
    /\ ~args.readable => ~out.r.ret

C16_Witness ==
  /\ out.fn = "upload_to_youtube_shorts"
  /\ TokenObtained(args.tokenResp)
  /\ args.init = [kind |-> "http", status |-> 200, location |-> "url"]
  /\ args.readable
  /\ args.put = [kind |-> "http", status |-> 201, body |-> "empty_id"]
  /\ ~out.r.ret
  /\ ~out.r.exc

\* C17: the candidates are probed in order up to the first that answers
\* 200, which is returned with no later candidate probed; the fallback
\* runs only when none of the three answered 200; when the fallback
\* raises or gives no URL the result is None; nothing is raised
C17_FirstGoodCandidateElseFallback ==
  out.fn = "get_clip_download_url" =>
    LET good == { i \in 1..3 : args.probes[i] = "200" } IN
    /\ ~out.r.exc
    /\ good /= {} =>
         /\ out.r.url = "cdn"
         /\ out.r.which \in good
         /\ \A i \in good : out.r.which <= i
         /\ out.r.probed = out.r.which
         /\ ~out.r.fallback
    /\ good = {} =>
         /\ out.r.probed = 3
         /\ out.r.fallback
         /\ args.fallback = "url" => out.r.url = "ytdlp"
         /\ args.fallback \in { "no_url", "raise" } => out.r.url = "None"

C17_Witness ==
  /\ out.fn = "get_clip_download_url"
  /\ args.probes = << "raise", "200", "200" >>
  /\ out.r.which = 2
  /\ out.r.probed = 2
  /\ ~out.r.fallback

\* the stage was invoked for the current clip
Invoked(stage) == \E i \in 1..Len(stageLog) : stageLog[i][1] = stage

\* the analysis of a transcript in which no keyword occurs
NeutralAnalysis ==
  [total_score |-> 0, categories |-> [c \in CategorySet |-> 0],
   dominant_emotion |-> "neutral"]

\* C18: for a clip whose download succeeded, a missing model or a raising
\* transcribe call leaves the empty transcript, the analysis of it is
\* 'neutral' with every score zero, and once transcription and analysis
\* are done the clip is at create_vertical_video or has been through it
C18_TranscriptionNeverBlocks ==
  /\ transcribeFailed => transcription = << >>
  /\ (transcribeFailed /\ Invoked("analyze")) =>
       content_analysis = NeutralAnalysis
  /\ (<< "download", TRUE >> \in Range(stageLog)
        /\ pc \notin { "verify", "transcribe", "analyze" }) =>
       /\ Invoked("transcribe")
       /\ Invoked("analyze")
       /\ pc = "vertical" \/ Invoked("create_vertical_video")

C18_Witness ==
  /\ pc = "trim"
  /\ transcribeFailed
  /\ self.whisper_model = "model"
  /\ transcription = << >>
  /\ content_analysis = NeutralAnalysis
  /\ stageLog[Len(stageLog)] = << "create_vertical_video", TRUE >>

====
